---- MODULE Spec2Model ----
(***************************************************************************)
(* Model of invoiceClaude.py: the batch loop of process_invoices, the      *)
(* response normalisation of parse_invoice_with_claude and the rule table  *)
(* of determine_reason_for_removal.                                        *)
(*                                                                         *)
(* Representation.  A Python str that the program inspects character by    *)
(* character (field values, file names) is a sequence of one-character     *)
(* strings; "" is <<>>.  Python's None is the one-element sequence None,   *)
(* which is no sequence of characters.  The text an oracle call writes to  *)
(* standard output is a sequence of lexemes: the characters "{", "}", ",", *)
(* newline, an ordinary prose character, the three-backtick fence, and     *)
(* whole JSON members ("key": value), see Member.                          *)
(***************************************************************************)
EXTENDS Integers, Sequences, FiniteSets, TLC

VARIABLES
    pc,            \* position of process_invoices
    csv,           \* invoice_analysis.csv, a sequence of rows
    files,         \* the sorted list of documents (line 82)
    NUM_ATTEMPTS,  \* line 84
    idx,           \* loop variable of line 96
    i,             \* loop variable of line 101 (0: loop of this document not entered)
    runs,          \* line 100
    result,        \* the CompletedProcess of the latest oracle call (line 25)
    final,         \* final_date, final_tail, final_event, final_component
    has_conflict,  \* line 112
    error,         \* the exception that ended the run, "none" if none
    log,           \* history: oracle invocations and row appends, in order
    c_event, c_component, c_reason,   \* a call of determine_reason_for_removal
    n_stdout, n_result                \* lines 31-60 applied to one result.stdout

vars == <<pc, csv, files, NUM_ATTEMPTS, idx, i, runs, result, final,
          has_conflict, error, log, c_event, c_component, c_reason,
          n_stdout, n_result>>
batchVars == <<pc, csv, files, NUM_ATTEMPTS, idx, i, runs, result, final,
               has_conflict, error, log>>
classifyVars == <<c_event, c_component, c_reason>>
normalizeVars == <<n_stdout, n_result>>

----------------------------------------------------------------------------
(* Python values and string operations *)

None == <<"None">>

\* Python truthiness of a str-or-None value: None and "" are false
Truthy(v) == v /= None /\ v /= <<>>

\* v or d
OrElse(v, d) == IF Truthy(v) THEN v ELSE d

UpperToLower ==
    ("A" :> "a") @@ ("B" :> "b") @@ ("C" :> "c") @@ ("D" :> "d") @@ ("E" :> "e")
 @@ ("F" :> "f") @@ ("G" :> "g") @@ ("H" :> "h") @@ ("I" :> "i") @@ ("J" :> "j")
 @@ ("K" :> "k") @@ ("L" :> "l") @@ ("M" :> "m") @@ ("N" :> "n") @@ ("O" :> "o")
 @@ ("P" :> "p") @@ ("Q" :> "q") @@ ("R" :> "r") @@ ("S" :> "s") @@ ("T" :> "t")
 @@ ("U" :> "u") @@ ("V" :> "v") @@ ("W" :> "w") @@ ("X" :> "x") @@ ("Y" :> "y")
 @@ ("Z" :> "z")

\* str.lower()
Lower(s) ==
    [k \in 1..Len(s) |-> IF s[k] \in DOMAIN UpperToLower THEN UpperToLower[s[k]] ELSE s[k]]

\* sub in s
In(sub, s) ==
    \E k \in 1..(Len(s) - Len(sub) + 1) : SubSeq(s, k, k + Len(sub) - 1) = sub

OIL_FILTER == <<"o", "i", "l", " ", "f", "i", "l", "t", "e", "r">>
AIR_FILTER == <<"a", "i", "r", " ", "f", "i", "l", "t", "e", "r">>
REPLACEMENT == <<"r", "e", "p", "l", "a", "c", "e", "m", "e", "n", "t">>
SERVICE == <<"s", "e", "r", "v", "i", "c", "e">>
INSPECTION == <<"i", "n", "s", "p", "e", "c", "t", "i", "o", "n">>
ANNUAL == <<"a", "n", "n", "u", "a", "l">>

----------------------------------------------------------------------------
(* determine_reason_for_removal, lines 62-78 *)

\* the rule table with the oil-filter test after the air-filter branch
determine_reason_air_first(event_type, component) ==
    LET component_lower == Lower(OrElse(component, <<>>))
        event_lower == Lower(OrElse(event_type, <<>>))
    IN  IF In(AIR_FILTER, component_lower)
        THEN IF In(REPLACEMENT, event_lower) THEN "Failure"
             ELSE IF In(SERVICE, event_lower) \/ In(INSPECTION, event_lower)
                  THEN "Scheduled"
                  ELSE "Failure"
        ELSE IF In(OIL_FILTER, component_lower) THEN "Scheduled"
        ELSE IF \E x \in {INSPECTION, ANNUAL, SERVICE} : In(x, event_lower)
             THEN "Scheduled"
        ELSE "Failure"

determine_reason_for_removal(event_type, component) ==
    LET component_lower == Lower(OrElse(component, <<>>))
        event_lower == Lower(OrElse(event_type, <<>>))
    IN  IF In(OIL_FILTER, component_lower) THEN "Scheduled"
        ELSE IF In(AIR_FILTER, component_lower)
        THEN IF In(REPLACEMENT, event_lower) THEN "Failure"
             ELSE IF In(SERVICE, event_lower) \/ In(INSPECTION, event_lower)
                  THEN "Scheduled"
                  ELSE "Failure"
        ELSE IF \E x \in {INSPECTION, ANNUAL, SERVICE} : In(x, event_lower)
             THEN "Scheduled"
        ELSE "Failure"

\* values of event_type the classifier is applied to
Ev100Hr == <<"1", "0", "0", "-", "H", "R", " ", "I", "N", "S", "P", "E", "C", "T", "I", "O", "N">>
Ev50Hr == <<"5", "0", "-", "h", "r", " ", "I", "n", "s", "p", "e", "c", "t", "i", "o", "n">>
EvAnnual == <<"A", "N", "N", "U", "A", "L">>
EvReplacement == <<"R", "E", "P", "L", "A", "C", "E", "M", "E", "N", "T">>
EvService == <<"S", "E", "R", "V", "I", "C", "E">>
EvRepair == <<"R", "E", "P", "A", "I", "R">>
EvReplService == <<"R", "e", "p", "l", "a", "c", "e", "m", "e", "n", "t", " ", "S", "e", "r", "v", "i", "c", "e">>
EvAnnul == <<"A", "N", "N", "U", "L">>
EventTypes ==
    {None, <<>>, Ev100Hr, Ev50Hr, EvAnnual, EvReplacement, EvService, EvRepair,
     EvReplService, EvAnnul}

\* values of component_description the classifier is applied to
CoOilFilter == <<"o", "i", "l", " ", "f", "i", "l", "t", "e", "r">>
CoOilFilterCaps == <<"E", "n", "g", "i", "n", "e", " ", "O", "I", "L", " ", "F", "I", "L", "T", "E", "R">>
CoAirFilter == <<"a", "i", "r", " ", "f", "i", "l", "t", "e", "r">>
CoAirFilterCaps == <<"A", "i", "r", " ", "F", "i", "l", "t", "e", "r", " ", "e", "l", "e", "m", "e", "n", "t">>
CoBoth == <<"a", "i", "r", " ", "f", "i", "l", "t", "e", "r", ",", " ", "o", "i", "l", " ", "f", "i", "l", "t", "e", "r">>
CoBrakePad == <<"b", "r", "a", "k", "e", " ", "p", "a", "d">>
CoAlternator == <<"a", "l", "t", "e", "r", "n", "a", "t", "o", "r">>
CoServiceKit == <<"s", "e", "r", "v", "i", "c", "e", " ", "k", "i", "t">>
CoOilFiltr == <<"o", "i", "l", " ", " ", "f", "i", "l", "t", "e", "r">>
Components ==
    {None, <<>>, CoOilFilter, CoOilFilterCaps, CoAirFilter, CoAirFilterCaps,
     CoBoth, CoBrakePad, CoAlternator, CoServiceKit, CoOilFiltr}

----------------------------------------------------------------------------
(* The text of result.stdout (line 25) and its lexemes *)

\* the three backticks that open or close a code block, one lexeme
FENCE == "<fence>"
NEWLINE == "\n"
Whitespace == {NEWLINE, " "}

\* JSON members ("key": value), each one lexeme of the text
MemberOf ==
    ("date:A" :> [key |-> "date", value |-> <<"A">>])
 @@ ("date:B" :> [key |-> "date", value |-> <<"B">>])
 @@ ("date:" :> [key |-> "date", value |-> <<>>])
 @@ ("date:null" :> [key |-> "date", value |-> None])
 @@ ("tail:N1" :> [key |-> "tail_number", value |-> <<"N", "1">>])
 @@ ("tail:N2" :> [key |-> "tail_number", value |-> <<"N", "2">>])
 @@ ("event:100HR" :> [key |-> "event_type", value |-> Ev100Hr])
 @@ ("event:REPL" :> [key |-> "event_type", value |-> EvReplacement])
 @@ ("event:null" :> [key |-> "event_type", value |-> None])
 @@ ("comp:oil" :> [key |-> "component_description", value |-> CoOilFilter])
 @@ ("comp:air" :> [key |-> "component_description", value |-> CoAirFilter])
 @@ ("comp:null" :> [key |-> "component_description", value |-> None])
 @@ ("extra:Z" :> [key |-> "confidence", value |-> <<"Z">>])
Members == DOMAIN MemberOf

FIELDS == {"date", "tail_number", "event_type", "component_description"}

\* the dict of lines 55-60
AllNull == [k \in FIELDS |-> None]

----------------------------------------------------------------------------
(* str methods used by lines 32-43 *)

\* the j-th smallest element of a set of positions
Nth(S, j) == CHOOSE p \in S : Cardinality({q \in S : q < p}) = j - 1

\* str.strip()
Strip(s) ==
    LET keep == {k \in 1..Len(s) : s[k] \notin Whitespace}
    IN  IF keep = {} THEN <<>>
        ELSE SubSeq(s, Nth(keep, 1), Nth(keep, Cardinality(keep)))

\* str.split('\n')
Split(s) ==
    LET nl == {k \in 1..Len(s) : s[k] = NEWLINE}
        n == Cardinality(nl)
        from(j) == IF j = 1 THEN 1 ELSE Nth(nl, j - 1) + 1
        to(j) == IF j = n + 1 THEN Len(s) ELSE Nth(nl, j) - 1
    IN  [j \in 1..(n + 1) |-> SubSeq(s, from(j), to(j))]

\* '\n'.join(lines)
RECURSIVE Join(_)
Join(lines) ==
    IF Len(lines) = 0 THEN <<>>
    ELSE IF Len(lines) = 1 THEN lines[1]
    ELSE lines[1] \o <<NEWLINE>> \o Join(Tail(lines))

\* str.find(c): index from 0, -1 if absent
Find(s, c) ==
    LET at == {k \in 1..Len(s) : s[k] = c}
    IN  IF at = {} THEN -1 ELSE Nth(at, 1) - 1

\* str.rfind(c): index from 0, -1 if absent
RFind(s, c) ==
    LET at == {k \in 1..Len(s) : s[k] = c}
    IN  IF at = {} THEN -1 ELSE Nth(at, Cardinality(at)) - 1

\* s[a:b] for 0 <= a, 0 <= b
Slice(s, a, b) == SubSeq(s, a + 1, IF b > Len(s) THEN Len(s) ELSE b)

----------------------------------------------------------------------------
(* json.loads on a text of lexemes: an object is "{", members separated by  *)
(* ",", "}", with whitespace allowed between lexemes; anything else is a    *)
(* JSONDecodeError.                                                         *)

JsonLexemes(s) == SelectSeq(s, LAMBDA c : c \notin Whitespace)

JsonValid(s) ==
    LET t == JsonLexemes(s)
        n == Len(t)
    IN  /\ n >= 2
        /\ t[1] = "{"
        /\ t[n] = "}"
        /\ \/ n = 2
           \/ /\ n % 2 = 1
              /\ \A k \in 2..(n - 1) :
                    IF k % 2 = 0 THEN t[k] \in Members ELSE t[k] = ","

\* the dict json.loads returns for a valid text; a repeated key keeps its last value
JsonLoads(s) ==
    LET t == JsonLexemes(s)
        at(key) == {k \in 1..Len(t) : t[k] \in Members /\ MemberOf[t[k]].key = key}
        keys == {MemberOf[t[k]].key : k \in {j \in 1..Len(t) : t[j] \in Members}}
    IN  [key \in keys |-> MemberOf[t[Nth(at(key), Cardinality(at(key)))]].value]

----------------------------------------------------------------------------
(* parse_invoice_with_claude, lines 31-60: from result.stdout to the dict   *)
(* it returns                                                               *)

\* lines 35-37
StripFence(response) ==
    IF Len(response) > 0 /\ response[1] = FENCE
    THEN LET lines == Split(response)
             n == Len(lines)
         IN  Join(IF lines[n] = <<FENCE>> THEN SubSeq(lines, 2, n - 1)
                                         ELSE SubSeq(lines, 2, n))
    ELSE response

\* lines 31-60 with the span taken from the last "{" instead of the first
ParseResponseLastBrace(stdout) ==
    LET response == StripFence(Strip(stdout))
        json_start == RFind(response, "{")
        json_end == RFind(response, "}") + 1
    IN  IF json_start /= -1 /\ json_end > json_start
        THEN LET json_str == Slice(response, json_start, json_end)
             IN  IF JsonValid(json_str) THEN JsonLoads(json_str) ELSE AllNull
        ELSE AllNull

ParseResponse(stdout) ==
    LET response == StripFence(Strip(stdout))
        json_start == Find(response, "{")
        json_end == RFind(response, "}") + 1
    IN  IF json_start /= -1 /\ json_end > json_start
        THEN LET json_str == Slice(response, json_start, json_end)
             IN  IF JsonValid(json_str) THEN JsonLoads(json_str) ELSE AllNull
        ELSE AllNull

----------------------------------------------------------------------------
(* Bounds of the model *)

\* the directory holds at most this many documents
MaxFiles == 2
\* NUM_ATTEMPTS ranges over 1..MaxAttempts (line 84 sets it to 1 and invites 3)
MaxAttempts == 2
\* longest result.stdout, in lexemes, the normalisation is applied to on its own
MaxStdoutLen == 5

----------------------------------------------------------------------------
(* File names, lines 81-82 and 136 *)

FILENAME_WIDTH == 30

Lowercase ==
    <<"a", "b", "c", "d", "e", "f", "g", "h", "i", "j", "k", "l", "m", "n", "o",
      "p", "q", "r", "s", "t", "u", "v", "w", "x", "y", "z">>

\* code-point order of the characters of file names: "." sorts before the letters
CharOrder == <<".">> \o Lowercase
Ord(c) == CHOOSE k \in 1..Len(CharOrder) : CharOrder[k] = c

\* a < b for str
LexLess(a, b) ==
    \E k \in 1..(Len(b)) :
        /\ k <= Len(a) + 1
        /\ \A j \in 1..(k - 1) : a[j] = b[j]
        /\ \/ k = Len(a) + 1
           \/ Ord(a[k]) < Ord(b[k])

\* the reverse of sorted(names)
SortedDescending(names) ==
    [j \in 1..Cardinality(names) |->
        CHOOSE x \in names : Cardinality({y \in names : LexLess(x, y)}) = j - 1]

\* sorted(names), the names distinct
Sorted(names) ==
    [j \in 1..Cardinality(names) |->
        CHOOSE x \in names : Cardinality({y \in names : LexLess(y, x)}) = j - 1]

\* s.endswith(suffix)
EndsWith(s, suffix) ==
    Len(s) >= Len(suffix) /\ SubSeq(s, Len(s) - Len(suffix) + 1, Len(s)) = suffix

PDF == <<".", "p", "d", "f">>
TXT == <<".", "t", "x", "t">>

\* the k-th document of the directory: later documents sort earlier, and their
\* names grow past FILENAME_WIDTH characters
Document(k) ==
    [j \in 1..(20 + 4 * k) |-> Lowercase[27 - k]] \o (IF k % 2 = 1 THEN PDF ELSE TXT)

\* what os.listdir can return: the documents and a file with another extension
DirEntries == {Document(k) : k \in 1..MaxFiles} \cup {<<"y", ".", "c", "s", "v">>}

\* line 82
ListFiles(listing) == Sorted({f \in listing : EndsWith(f, PDF) \/ EndsWith(f, TXT)})

----------------------------------------------------------------------------
(* Oracle calls, line 25: what subprocess.run can return *)

O_full == <<"{", "date:A", ",", "tail:N1", ",", "event:100HR", ",", "comp:oil", "}">>
\* a fenced, multi-line reply that differs from O_full in the date only
O_fencedB ==
    <<FENCE, "x", NEWLINE, "{", NEWLINE, "date:B", ",", NEWLINE, "tail:N1", ",",
      NEWLINE, "event:100HR", ",", NEWLINE, "comp:oil", NEWLINE, "}", NEWLINE, FENCE>>
\* O_full with an empty-string date and a null event type
O_emptyDate == <<"{", "date:", ",", "tail:N1", ",", "event:null", ",", "comp:oil", "}">>
\* an object without three of the fields, inside prose
O_missing == <<"x", " ", "{", "date:A", "}", " ", "x">>
\* another tail number and component than O_full, and a fifth member
O_extra ==
    <<"{", "date:A", ",", "tail:N2", ",", "event:100HR", ",", "comp:air", ",",
      "extra:Z", "}">>
O_prose == <<"x", "x", "}", " ", "{", "x">>
O_badJson == <<"{", "date:A", "x", "}">>

OracleResults ==
    {[returncode |-> 0, stdout |-> O_full],
     [returncode |-> 0, stdout |-> O_fencedB],
     [returncode |-> 0, stdout |-> O_emptyDate],
     [returncode |-> 0, stdout |-> O_missing],
     [returncode |-> 0, stdout |-> O_extra],
     [returncode |-> 0, stdout |-> O_prose],
     [returncode |-> 0, stdout |-> O_badJson],
     [returncode |-> 1, stdout |-> <<>>],
     [returncode |-> 1, stdout |-> O_full]}

\* parse_invoice_with_claude once subprocess.run has returned, lines 27-60
parse_invoice_with_claude(completed) == ParseResponse(completed.stdout)

----------------------------------------------------------------------------
(* Reconciliation and the output row, lines 107-144 *)

HEADERS ==
    <<"Filename", "Date", "Tail_Number", "Event_Type", "Component_Description",
      "Reason_for_Removal", "Conflict_Flag", "Conflict_Details">>

\* r[field] raises KeyError for some attempt record (lines 107-110)
RaisesKeyError(attempts) ==
    \E k \in 1..Len(attempts), field \in FIELDS : field \notin DOMAIN attempts[k]

\* set(r[field] for r in runs if r[field] is not None)
FieldSetNotNone(attempts, field) ==
    {attempts[k][field] : k \in {j \in 1..Len(attempts) : attempts[j][field] /= None}}

\* set(r[field] for r in runs if r[field]), lines 107-110
FieldSet(attempts, field) ==
    {attempts[k][field] : k \in {j \in 1..Len(attempts) : Truthy(attempts[j][field])}}

\* a conflict test that looks at the date only
HasConflictDateOnly(date_set, tail_set, event_set, component_set) ==
    Cardinality(date_set) > 1

\* line 112
HasConflict(date_set, tail_set, event_set, component_set) ==
    \/ Cardinality(date_set) > 1
    \/ Cardinality(tail_set) > 1
    \/ Cardinality(event_set) > 1
    \/ Cardinality(component_set) > 1

\* the values list(value_set)[0] can be: any element, the iteration order of a
\* set of str is not fixed; None for the empty set (lines 114-117)
FirstOf(value_set) == IF value_set = {} THEN {None} ELSE value_set

\* lines 122-133; the joined text is kept as the sequence of its parts, each a
\* label with the values listed after it, and "" is <<>>
ConflictDetails(date_set, tail_set, event_set, component_set) ==
    IF HasConflict(date_set, tail_set, event_set, component_set)
    THEN (IF Cardinality(date_set) > 1 THEN <<<<"Dates", date_set>>>> ELSE <<>>)
      \o (IF Cardinality(tail_set) > 1 THEN <<<<"Tails", tail_set>>>> ELSE <<>>)
      \o (IF Cardinality(event_set) > 1 THEN <<<<"Events", event_set>>>> ELSE <<>>)
      \o (IF Cardinality(component_set) > 1
          THEN <<<<"Components", component_set>>>> ELSE <<>>)
    ELSE <<>>

\* lines 121 and 135-144
Row(file_name, fin, reason, conflict, conflict_details) ==
    <<Slice(file_name, 0, FILENAME_WIDTH),
      OrElse(fin.date, <<>>),
      OrElse(fin.tail_number, <<>>),
      OrElse(fin.event_type, <<>>),
      OrElse(fin.component_description, <<>>),
      reason,
      IF conflict THEN "CONFLICT" ELSE "",
      conflict_details>>

\* the file initialised again (lines 89-91) before every row
WriteRow(file, row) == <<HEADERS, row>>

\* lines 147-149
AppendRow(file, row) == Append(file, row)

\* the attempt loop left one iteration early
AfterAttemptShort(a, n) == IF a >= n - 1 THEN "reconcile" ELSE "attempts"

\* line 101: where control goes after attempt a of n
AfterAttempt(a, n) == IF a = n THEN "reconcile" ELSE "attempts"

----------------------------------------------------------------------------
(* process_invoices *)

NoResult == [returncode |-> 0, stdout |-> <<>>]

\* a file left by an earlier run
StaleCsv ==
    <<HEADERS, Row(<<"o", "l", "d", ".", "p", "d", "f">>, AllNull, "Failure", FALSE, <<>>)>>

Idle ==
    /\ pc = "idle"
    /\ csv = <<>>
    /\ files = <<>>
    /\ NUM_ATTEMPTS = 0
    /\ idx = 0
    /\ i = 0
    /\ runs = <<>>
    /\ result = NoResult
    /\ final = AllNull
    /\ has_conflict = FALSE
    /\ error = "none"
    /\ log = <<>>

ClassifyIdle == c_event = None /\ c_component = None /\ c_reason = "idle"
NormalizeIdle == n_stdout = <<>> /\ n_result = <<>>

Init ==
    /\ pc = "start"
    /\ csv \in {<<>>, StaleCsv}
    /\ files = <<>>
    /\ NUM_ATTEMPTS = 0
    /\ idx = 0
    /\ i = 0
    /\ runs = <<>>
    /\ result = NoResult
    /\ final = AllNull
    /\ has_conflict = FALSE
    /\ error = "none"
    /\ log = <<>>
    /\ ClassifyIdle
    /\ NormalizeIdle

\* lines 81-94
Initialize ==
    /\ pc = "start"
    /\ \E listing \in SUBSET DirEntries, n \in 1..MaxAttempts :
        /\ files' = ListFiles(listing)
        /\ NUM_ATTEMPTS' = n
        /\ pc' = IF Len(ListFiles(listing)) = 0 THEN "done" ELSE "attempts"
    /\ csv' = <<HEADERS>>
    /\ UNCHANGED <<idx, i, runs, result, final, has_conflict, error, log>>
    /\ UNCHANGED <<classifyVars, normalizeVars>>

\* lines 96-105, one iteration of the attempt loop whose oracle call returns;
\* the first iteration for a document enters the document (lines 96-100)
AttemptReturns ==
    /\ pc = "attempts"
    /\ \E completed \in OracleResults :
        /\ result' = completed
        /\ runs' = Append(IF i = 0 THEN <<>> ELSE runs,
                          parse_invoice_with_claude(completed))
    /\ idx' = (IF i = 0 THEN idx + 1 ELSE idx)
    /\ i' = i + 1
    /\ log' = Append(log, <<"invoke", IF i = 0 THEN idx + 1 ELSE idx, i + 1>>)
    /\ pc' = AfterAttempt(i + 1, NUM_ATTEMPTS)
    /\ UNCHANGED <<csv, files, NUM_ATTEMPTS, final, has_conflict, error>>
    /\ UNCHANGED <<classifyVars, normalizeVars>>

\* the same iteration when the call exceeds timeout=30: subprocess.run raises
\* TimeoutExpired at line 25, outside the try of line 31, and nothing up to
\* line 249 catches it
AttemptTimesOut ==
    /\ pc = "attempts"
    /\ idx' = (IF i = 0 THEN idx + 1 ELSE idx)
    /\ i' = i + 1
    /\ runs' = (IF i = 0 THEN <<>> ELSE runs)
    /\ log' = Append(log, <<"invoke", IF i = 0 THEN idx + 1 ELSE idx, i + 1>>)
    /\ pc' = "aborted"
    /\ error' = "TimeoutExpired"
    /\ UNCHANGED <<csv, files, NUM_ATTEMPTS, result, final, has_conflict>>
    /\ UNCHANGED <<classifyVars, normalizeVars>>

\* lines 107-110 when an attempt record lacks a field
ReconcileRaises ==
    /\ pc = "reconcile"
    /\ RaisesKeyError(runs)
    /\ pc' = "aborted"
    /\ error' = "KeyError"
    /\ UNCHANGED <<csv, files, NUM_ATTEMPTS, idx, i, runs, result, final,
                   has_conflict, log>>
    /\ UNCHANGED <<classifyVars, normalizeVars>>

\* lines 107-159: reconcile, classify, append the row, go to the next document
FinishDocument ==
    /\ pc = "reconcile"
    /\ ~RaisesKeyError(runs)
    /\ LET date_set == FieldSet(runs, "date")
           tail_set == FieldSet(runs, "tail_number")
           event_set == FieldSet(runs, "event_type")
           component_set == FieldSet(runs, "component_description")
           conflict == HasConflict(date_set, tail_set, event_set, component_set)
       IN  \E final_date \in FirstOf(date_set), final_tail \in FirstOf(tail_set),
              final_event \in FirstOf(event_set),
              final_component \in FirstOf(component_set) :
             LET fin == [date |-> final_date, tail_number |-> final_tail,
                         event_type |-> final_event,
                         component_description |-> final_component]
                 reason == determine_reason_for_removal(final_event, final_component)
             IN  /\ final' = fin
                 /\ has_conflict' = conflict
                 /\ csv' = AppendRow(csv,
                        Row(files[idx], fin, reason, conflict,
                            ConflictDetails(date_set, tail_set, event_set,
                                            component_set)))
    /\ log' = Append(log, <<"append", idx>>)
    /\ i' = 0
    /\ pc' = IF idx < Len(files) THEN "attempts" ELSE "done"
    /\ UNCHANGED <<files, NUM_ATTEMPTS, idx, runs, result, error>>
    /\ UNCHANGED <<classifyVars, normalizeVars>>

\* the process is killed while it works on a document
Terminate ==
    /\ pc \in {"attempts", "reconcile"}
    /\ pc' = "terminated"
    /\ UNCHANGED <<csv, files, NUM_ATTEMPTS, idx, i, runs, result, final,
                   has_conflict, error, log>>
    /\ UNCHANGED <<classifyVars, normalizeVars>>

Next ==
    \/ Initialize
    \/ AttemptReturns
    \/ AttemptTimesOut
    \/ ReconcileRaises
    \/ FinishDocument
    \/ Terminate

Spec == Init /\ [][Next]_vars

----------------------------------------------------------------------------
(* determine_reason_for_removal applied to one pair of arguments *)

InitClassify ==
    /\ Idle
    /\ NormalizeIdle
    /\ c_event \in EventTypes
    /\ c_component \in Components
    /\ c_reason = "pending"

Classify ==
    /\ c_reason = "pending"
    /\ c_reason' = determine_reason_for_removal(c_event, c_component)
    /\ UNCHANGED <<c_event, c_component, batchVars, normalizeVars>>

NextClassify == Classify

SpecClassify == InitClassify /\ [][NextClassify]_vars

----------------------------------------------------------------------------
(* lines 31-60 applied to one result.stdout *)

StdoutAlphabet == {"{", "}", ",", NEWLINE, "x", FENCE, "date:A", "extra:Z"}

InitNormalize ==
    /\ Idle
    /\ ClassifyIdle
    /\ n_stdout \in UNION {[1..n -> StdoutAlphabet] : n \in 0..MaxStdoutLen}
    /\ n_result = <<>>

\* n_result is <<>> before the call and <<the dict returned>> after it
Normalize ==
    /\ n_result = <<>>
    /\ n_result' = <<ParseResponse(n_stdout)>>
    /\ UNCHANGED <<n_stdout, batchVars, classifyVars>>

NextNormalize == Normalize

SpecNormalize == InitNormalize /\ [][NextNormalize]_vars

----------------------------------------------------------------------------
(* Properties of determine_reason_for_removal, under SpecClassify *)

\* the value, None read as "", contains the lower-case word w, letter case ignored
Mentions(v, w) ==
    /\ v /= None
    /\ \E k \in 1..(Len(v) - Len(w) + 1) :
          \A j \in 1..Len(w) :
              (IF v[k + j - 1] \in DOMAIN UpperToLower
               THEN UpperToLower[v[k + j - 1]] ELSE v[k + j - 1]) = w[j]

\* the rule table of the specification as the set of pairs that are Scheduled
TableScheduled(event, component) ==
    \/ Mentions(component, OIL_FILTER)
    \/ /\ Mentions(component, AIR_FILTER)
       /\ ~Mentions(event, REPLACEMENT)
       /\ Mentions(event, SERVICE) \/ Mentions(event, INSPECTION)
    \/ /\ ~Mentions(component, AIR_FILTER)
       /\ \/ Mentions(event, INSPECTION)
          \/ Mentions(event, ANNUAL)
          \/ Mentions(event, SERVICE)

\* C8: determine_reason_for_removal returns Scheduled or Failure for every pair
\* of arguments, None included, and returns Scheduled exactly for the pairs the
\* rule table makes Scheduled (first match wins, case ignored, None as ""); the
\* four named pairs get Scheduled, Failure, Failure, Failure.
C8_ClassifierMatchesTable ==
    c_reason \notin {"idle", "pending"} =>
        /\ c_reason \in {"Scheduled", "Failure"}
        /\ (c_reason = "Scheduled") <=> TableScheduled(c_event, c_component)
        /\ (c_event = Ev100Hr /\ c_component = CoOilFilter) => c_reason = "Scheduled"
        /\ (c_event = EvReplacement /\ c_component = CoAirFilter) => c_reason = "Failure"
        /\ (c_event = None /\ c_component = CoAirFilter) => c_reason = "Failure"
        /\ (c_event = None /\ c_component = None) => c_reason = "Failure"

\* a replacement of a component that names both filters: rule 1 decides
C8_Witness ==
    c_event = EvReplacement /\ c_component = CoBoth /\ c_reason = "Scheduled"

----------------------------------------------------------------------------
(* Properties of the normalisation, under SpecNormalize *)

\* the text has a "{" followed later by a "}"
HasSpan(s) == \E a, b \in 1..Len(s) : a < b /\ s[a] = "{" /\ s[b] = "}"

\* the span of a text from its first "{" to its last "}"
SpanOf(s) ==
    LET a == CHOOSE k \in 1..Len(s) : s[k] = "{" /\ \A j \in 1..(k - 1) : s[j] /= "{"
        b == CHOOSE k \in 1..Len(s) : s[k] = "}" /\ \A j \in (k + 1)..Len(s) : s[j] /= "}"
    IN  SubSeq(s, a, b)

Returned == n_result /= <<>>

\* C9 as stated: a stdout without a "{" followed later by a "}", or whose span
\* from the first "{" to the last "}" is not valid JSON, yields the all-null
\* record.
C9_RawSpanDecides ==
    Returned =>
        ((~HasSpan(n_stdout) \/ ~JsonValid(SpanOf(n_stdout))) => n_result[1] = AllNull)

\* C9 amended: a stdout without a "{" followed later by a "}" yields the all-null
\* record, and so does one whose text after whitespace stripping and code-fence
\* removal has a span from its first "{" to its last "}" that is not valid JSON.
C9_RemainingSpanDecides ==
    Returned =>
        LET remaining == StripFence(Strip(n_stdout))
        IN  /\ ~HasSpan(n_stdout) => n_result[1] = AllNull
            /\ (HasSpan(remaining) /\ ~JsonValid(SpanOf(remaining)))
                    => n_result[1] = AllNull

\* a fenced reply whose remaining text holds two objects one after the other
C9_Witness ==
    /\ Returned
    /\ Len(n_stdout) >= 1
    /\ n_stdout[1] = FENCE
    /\ HasSpan(StripFence(Strip(n_stdout)))
    /\ ~JsonValid(SpanOf(StripFence(Strip(n_stdout))))
    /\ Len(SelectSeq(n_stdout, LAMBDA c : c = "{")) = 2
    /\ n_result[1] = AllNull

----------------------------------------------------------------------------
(* Properties of process_invoices, under Spec *)

\* the number of documents whose processing has finished
Finished == IF i = 0 THEN idx ELSE idx - 1

\* the row of document idx has just been appended: runs, final and has_conflict
\* are those of that document
RowWritten == i = 0 /\ idx >= 1

LastRow == csv[Len(csv)]

\* C1 as stated: a timed-out oracle call never ends the run, and the attempt
\* leaves a record, the all-null one, in runs.
C1_TimeoutDoesNotAbort ==
    /\ error /= "TimeoutExpired"
    /\ (i >= 1 /\ pc /= "terminated") => Len(runs) = i

\* C2 as stated: the record of an oracle call that ended with a non-zero exit
\* status is the all-null record.
C2_FailedCallIsAllNull ==
    (Len(runs) >= 1 /\ result.returncode /= 0) => runs[Len(runs)] = AllNull

\* the file after initialisation: the header row, then one complete row for
\* each finished document, in the order of files
C3_FileState ==
    pc /= "start" =>
        /\ Len(csv) = 1 + Finished
        /\ csv[1] = HEADERS
        /\ \A d \in 1..Finished :
              /\ Len(csv[d + 1]) = Len(HEADERS)
              /\ csv[d + 1][1] = SubSeq(files[d], 1,
                    IF Len(files[d]) < FILENAME_WIDTH THEN Len(files[d])
                    ELSE FILENAME_WIDTH)

\* a step after initialisation keeps every row written so far
C3_FileStep ==
    pc /= "start" =>
        /\ Len(csv') >= Len(csv)
        /\ \A j \in 1..Len(csv) : csv'[j] = csv[j]

\* C3: in every state after initialisation, a terminated run included,
\* invoice_analysis.csv holds the header row and one complete row for each of
\* the documents that have finished, in sorted filename order, and no row for
\* the document in progress or a later one; no step changes, moves or removes
\* a row already written.
C3_CrashSafe == []C3_FileState /\ [][C3_FileStep]_vars

\* the run is killed in the second document, after one of its attempts
C3_Witness ==
    pc = "terminated" /\ idx = 2 /\ i = 1 /\ Len(csv) = 2 /\ Len(files[1]) > FILENAME_WIDTH

\* C4 as stated: whatever the oracle does, the run does not end early and ends
\* with one row per document in order; a document whose attempts all gave the
\* all-null record gets empty extraction fields, Failure, and no conflict.
C4_BatchAlwaysCompletes ==
    /\ pc /= "aborted"
    /\ pc = "done" =>
          /\ Len(csv) = 1 + Len(files)
          /\ \A d \in 1..Len(files) :
                csv[d + 1][1] = Slice(files[d], 0, FILENAME_WIDTH)
    /\ (RowWritten /\ \A k \in 1..Len(runs) : runs[k] = AllNull) =>
          /\ \A c \in 2..5 : LastRow[c] = <<>>
          /\ LastRow[6] = "Failure"
          /\ LastRow[7] = ""
          /\ LastRow[8] = <<>>
          /\ ~has_conflict

\* the values of a field that are not None, over the attempts of the document
NonNullValues(field) ==
    {runs[k][field] : k \in {j \in 1..Len(runs) : runs[j][field] /= None}}

\* the values of a field that are neither None nor "", over the attempts
NonEmptyValues(field) ==
    {runs[k][field] : k \in {j \in 1..Len(runs) : runs[j][field] \notin {None, <<>>}}}

DetailLabel ==
    [date |-> "Dates", tail_number |-> "Tails", event_type |-> "Events",
     component_description |-> "Components"]

\* C5 as stated: has_conflict holds exactly when some field has more than one
\* distinct non-null value over the attempts.
C5_ConflictIffDistinctNonNull ==
    RowWritten =>
        (has_conflict <=> \E f \in FIELDS : Cardinality(NonNullValues(f)) > 1)

\* C5 amended: has_conflict holds exactly when some field has more than one
\* distinct non-null, non-empty value over the attempts; Conflict_Details names
\* exactly those fields, once each, with all their distinct non-empty values,
\* and Conflict_Flag is CONFLICT exactly when has_conflict holds.
C5_ConflictIffDistinctNonEmpty ==
    RowWritten =>
        /\ has_conflict <=> \E f \in FIELDS : Cardinality(NonEmptyValues(f)) > 1
        /\ (LastRow[7] = "CONFLICT") <=> has_conflict
        /\ LastRow[7] \in {"CONFLICT", ""}
        /\ {LastRow[8][k] : k \in 1..Len(LastRow[8])}
             = {<<DetailLabel[f], NonEmptyValues(f)>> :
                    f \in {g \in FIELDS : Cardinality(NonEmptyValues(g)) > 1}}
        /\ Len(LastRow[8])
             = Cardinality({g \in FIELDS : Cardinality(NonEmptyValues(g)) > 1})

\* the attempts disagree on the date only
C5_Witness ==
    /\ RowWritten
    /\ has_conflict
    /\ Cardinality(NonEmptyValues("date")) = 2
    /\ Cardinality(NonEmptyValues("tail_number")) = 1
    /\ LastRow[7] = "CONFLICT"
    /\ Len(LastRow[8]) = 1

\* C6 as stated: a field of the final record is non-null exactly when some
\* attempt gave a non-null value for it, the empty string included, and then it
\* is one of the values the attempts gave.
C6_FinalIffSomeNonNull ==
    RowWritten =>
        \A f \in FIELDS :
            /\ final[f] /= None <=> NonNullValues(f) /= {}
            /\ final[f] /= None => final[f] \in NonNullValues(f)

\* C6 amended: a field of the final record is non-null exactly when some
\* attempt gave a non-null, non-empty value for it, and then it is one of the
\* non-empty values the attempts gave; an empty string counts as no value.
C6_FinalIffSomeNonEmpty ==
    RowWritten =>
        \A f \in FIELDS :
            /\ final[f] /= None <=> NonEmptyValues(f) /= {}
            /\ final[f] /= None => final[f] \in NonEmptyValues(f)

\* one attempt gave "" for the date and null for the event type, another gave
\* both
C6_Witness ==
    /\ RowWritten
    /\ \E k \in 1..Len(runs) : runs[k]["date"] = <<>> /\ runs[k]["event_type"] = None
    /\ final["date"] /= None
    /\ final["event_type"] /= None

\* C7 as stated: an attempt record has exactly the four fields, whatever object
\* the oracle wrote, and reconciliation does not fail on a missing field.
C7_RecordHasFourFields ==
    /\ \A k \in 1..Len(runs) : DOMAIN runs[k] = FIELDS
    /\ error /= "KeyError"

\* the invocations and appends of a whole run: for each document in turn,
\* attempts 1..NUM_ATTEMPTS and then the append of its row
Schedule ==
    [k \in 1..(Len(files) * (NUM_ATTEMPTS + 1)) |->
        LET d == ((k - 1) \div (NUM_ATTEMPTS + 1)) + 1
            a == ((k - 1) % (NUM_ATTEMPTS + 1)) + 1
        IN  IF a <= NUM_ATTEMPTS THEN <<"invoke", d, a>> ELSE <<"append", d>>]

\* C10: the documents are in sorted filename order, and the oracle invocations
\* and row appends happen in the order: for each document in turn, attempts
\* 1..NUM_ATTEMPTS, then the append of its row; a finished run has made all of
\* them, and the rows in the file are as many as the appends made.
C10_SequentialSchedule ==
    pc /= "start" =>
        /\ NUM_ATTEMPTS >= 1
        /\ \A j, k \in 1..Len(files) : j < k => LexLess(files[j], files[k])
        /\ Len(log) <= Len(Schedule)
        /\ \A k \in 1..Len(log) : log[k] = Schedule[k]
        /\ pc = "done" => log = Schedule
        /\ Len(csv) - 1 = Cardinality({k \in 1..Len(log) : log[k][1] = "append"})

\* a finished run of two documents with two attempts each
C10_Witness ==
    pc = "done" /\ Len(files) = 2 /\ NUM_ATTEMPTS = 2 /\ Len(log) = 6

====
